---- MODULE Spec2Model ----
(***************************************************************************)
(* Model of easy_storage (src/src/lib.rs): the Storeable trait's save,     *)
(* save_by_extension, load and load_by_extension, the private              *)
(* path_to_format, and the Error enum with its From conversions.           *)
(*                                                                         *)
(* Text (paths, file contents, encodings) is a sequence of one-character   *)
(* strings.  An Option is a sequence of length 0 (None) or 1 (Some).        *)
(***************************************************************************)
EXTENDS Integers, Sequences, FiniteSets, TLC

VARIABLES
    path,      \* the path the caller passes to every call of the behaviour
    dirOk,     \* the parent directory of path exists and is writable
    file,      \* the file at path: [exists |-> BOOLEAN, content |-> text]
    last,      \* the last completed call: arguments, result and the steps it took
    pc,        \* per thread: the step of its program it is about to take
    call,      \* per thread: the arguments of its save: [rec, create, fmt]
    buf,       \* per thread: the encoded text held between encode and write_all
    got,       \* per thread: the Result its save returned, "" while it runs
    log        \* the opens and writes that reached the file, oldest first

threadVars == <<pc, call, buf, got, log>>

vars == <<path, dirOk, file, last, pc, call, buf, got, log>>

\* ------------------------------------------------------------------ bounds

\* longest name / email of a record
MaxStrLen == 1
\* longest file stem of a generated path
MaxStemLen == 3

\* ------------------------------------------------------------- text helpers

\* a byte that is not valid UTF-8
InvalidByte == "xFF"

None == <<>>
Some(x) == <<x>>

\* all sequences over S of length at most n
SeqsUpTo(S, n) == UNION {[1..k -> S] : k \in 0..n}

\* F applied to the value of v: v is evaluated once, however often F uses it
Let(v, F(_)) == CHOOSE r \in {F(x) : x \in {v}} : TRUE

Text == Seq(STRING)

\* index of the last occurrence of c in s, 0 when there is none
LastIndexOf(s, c) ==
    LET hits == {i \in 1..Len(s) : s[i] = c}
    IN IF hits = {} THEN 0 ELSE CHOOSE i \in hits : \A j \in hits : j <= i

\* s split at every c
Split(s, c) ==
    LET go[i \in Nat, cur \in Text, acc \in Seq(Text)] ==
            IF i > Len(s) THEN Append(acc, cur)
            ELSE IF s[i] = c THEN go[i + 1, <<>>, Append(acc, cur)]
            ELSE go[i + 1, Append(cur, s[i]), acc]
    IN go[1, <<>>, <<>>]

\* ------------------------------------------------- Error, Format (lines 36-96)

\* enum Format
Format == {"Json", "Toml"}

\* enum Error: the variant names
Error == {"IoE", "JsonE", "ParTomlE", "DesTomlE", "ExtensionDoesNotExist"}

\* the kinds of underlying failure that the From impls convert
Failure == {"io", "serde_json", "toml_ser", "toml_de"}

\* From with toml::de::Error wrapped in the variant of toml::ser::Error
From_de_as_ser(failure) ==
    CASE failure = "io" -> "IoE"
      [] failure = "serde_json" -> "JsonE"
      [] failure = "toml_ser" -> "ParTomlE"
      [] failure = "toml_de" -> "ParTomlE"

\* impl From<std::io::Error>, From<serde_json::Error>, From<toml::ser::Error>,
\* From<toml::de::Error> for Error: what the ? operator applies
From(failure) ==
    CASE failure = "io" -> "IoE"
      [] failure = "serde_json" -> "JsonE"
      [] failure = "toml_ser" -> "ParTomlE"
      [] failure = "toml_de" -> "DesTomlE"

\* ---------------------------------------------- std::path::Path (line 99)

\* Path::file_name: the last component of the path when it is a normal one.
\* Empty components (repeated or trailing separators) and "." components are
\* dropped by the component iterator; a path ending in ".." has no file name.
file_name(p) ==
    Let(SelectSeq(Split(p, "/"), LAMBDA c : c # <<>> /\ c # <<".">>), LAMBDA comps :
        IF comps = <<>> THEN None
        ELSE IF comps[Len(comps)] = <<".", ".">> THEN None
        ELSE Some(comps[Len(comps)]))

\* extension with the file name split at its first "." instead of its last
extension_first_dot(p) ==
    Let(file_name(p), LAMBDA fname :
        IF fname = None THEN None
        ELSE Let(Split(fname[1], "."), LAMBDA parts :
                 IF Len(parts) < 2 \/ parts[1] = <<>> THEN None
                 ELSE Some(SubSeq(fname[1], Len(parts[1]) + 2, Len(fname[1])))))

\* Path::extension: the file name split at its last "."; None when the file
\* name has no ".", or when nothing but the "." precedes it (".toml")
extension(p) ==
    Let(file_name(p), LAMBDA fname :
        IF fname = None THEN None
        ELSE Let(LastIndexOf(fname[1], "."), LAMBDA dot :
                 IF dot = 0 THEN None
                 ELSE IF dot = 1 THEN None
                 ELSE Some(SubSeq(fname[1], dot + 1, Len(fname[1])))))

\* OsStr::to_str: None unless the text is valid UTF-8
to_str(s) == IF \E i \in 1..Len(s) : s[i] = InvalidByte THEN None ELSE Some(s)

json == <<"j", "s", "o", "n">>
toml == <<"t", "o", "m", "l">>

\* path_to_format comparing the extension without regard to case
path_to_format_nocase(p) ==
    LET lower(c) == CASE c = "J" -> "j" [] c = "S" -> "s" [] c = "O" -> "o"
                      [] c = "N" -> "n" [] c = "T" -> "t" [] c = "M" -> "m"
                      [] c = "L" -> "l" [] OTHER -> c
    IN Let(extension(p), LAMBDA e :
       Let(IF e = None THEN None ELSE to_str(e[1]), LAMBDA v :
           IF v # None
           THEN Let([i \in 1..Len(v[1]) |-> lower(v[1][i])], LAMBDA w :
                    IF w = json THEN [tag |-> "Ok", fmt |-> "Json"]
                    ELSE IF w = toml THEN [tag |-> "Ok", fmt |-> "Toml"]
                    ELSE [tag |-> "ExtensionDoesNotExist", fmt |-> ""])
           ELSE [tag |-> "ExtensionDoesNotExist", fmt |-> ""]))

\* fn path_to_format (lines 98-108): [tag, fmt]; fmt is "" with an error
path_to_format(p) ==
    Let(extension(p), LAMBDA e :
    Let(IF e = None THEN None ELSE to_str(e[1]), LAMBDA v :
        IF v # None
        THEN IF v[1] = json THEN [tag |-> "Ok", fmt |-> "Json"]
             ELSE IF v[1] = toml THEN [tag |-> "Ok", fmt |-> "Toml"]
             ELSE [tag |-> "ExtensionDoesNotExist", fmt |-> ""]
        ELSE [tag |-> "ExtensionDoesNotExist", fmt |-> ""]))

\* ------------------------------------------------------------ the paths

\* extensions tried: the two supported ones, case variants, an alias, longer
\* and shorter strings, the empty one, one that is not UTF-8
Extensions ==
    { json, toml,
      <<"J", "S", "O", "N">>, <<"T", "o", "m", "l">>, <<"j", "s", "n">>,
      <<"y", "a", "m", "l">>, <<"j", "s", "o", "n", "5">>, <<"o", "m", "l">>,
      <<>>, <<"j", "s", "o", "n", InvalidByte>> }

Stems == SeqsUpTo({"a", "."}, MaxStemLen)

\* directories in front of the file name; one has an extension of its own
Dirs == { <<>>, <<"d", "/">>, <<"d", ".", "j", "s", "o", "n", "/">>, <<"/">> }

\* what may follow the file name
Tails == { <<>>, <<"/">>, <<"/", ".">>, <<"/", ".", ".">> }

\* dir ++ stem ++ "." ++ ext ++ tail, and the same without the "."
AllPaths ==
    { d \o s \o sep \o e \o t :
        d \in Dirs, s \in Stems, sep \in {<<>>, <<".">>}, e \in Extensions, t \in Tails }

\* --------------------------------------------------------- the records

\* characters of a record's strings: a plain one, and the two that the
\* codecs must escape or quote around
StrChars == {"a", "\"", "\\"}

Strs == SeqsUpTo(StrChars, MaxStrLen)

\* the emails are empty or not
Emails == {<<>>, <<"a">>}

\* struct User { name: String, email: String } of the tests (lines 191-195);
\* encodable tells whether the type's Serialize impl succeeds
User(n, e) == [name |-> n, email |-> e, encodable |-> TRUE]

\* a record whose Serialize impl reports an error to the serializer
Unencodable == [name |-> <<>>, email |-> <<>>, encodable |-> FALSE]

Records == {User(n, e) : n \in Strs, e \in Emails} \cup {Unencodable}

nameKey == <<"n", "a", "m", "e">>
emailKey == <<"e", "m", "a", "i", "l">>

\* -------------------------------- serde_json::to_string_pretty (line 122)

\* a string's characters as JSON writes them between the quotes
JsonEscape(str) ==
    LET esc[i \in Nat] ==
            IF i > Len(str) THEN <<>>
            ELSE (CASE str[i] = "\"" -> <<"\\", "\"">>
                    [] str[i] = "\\" -> <<"\\", "\\">>
                    [] str[i] = "\n" -> <<"\\", "n">>
                    [] str[i] = "\t" -> <<"\\", "t">>
                    [] OTHER -> <<str[i]>>) \o esc[i + 1]
    IN esc[1]

JsonString(str) == <<"\"">> \o JsonEscape(str) \o <<"\"">>

\* the pretty printer: one member per line, indented by two spaces, no
\* newline after the closing brace
JsonPretty(rec) ==
    <<"{", "\n", " ", " ">> \o JsonString(nameKey) \o <<":", " ">> \o JsonString(rec.name)
    \o <<",", "\n", " ", " ">> \o JsonString(emailKey) \o <<":", " ">> \o JsonString(rec.email)
    \o <<"\n", "}">>

\* ----------------------------------- toml::to_string_pretty (line 123)

TomlEscape(str) == JsonEscape(str)

\* a string value: a literal string '...' when the value holds a quote or a
\* backslash and can be written literally, a basic string "..." otherwise
TomlString(str) ==
    LET has(c) == \E i \in 1..Len(str) : str[i] = c
        literal == (has("\"") \/ has("\\")) /\ ~has("'") /\ ~has("\n")
    IN IF literal THEN <<"'">> \o str \o <<"'">>
       ELSE <<"\"">> \o TomlEscape(str) \o <<"\"">>

\* one "key = value" line per field, each ended by a newline
TomlPretty(rec) ==
    nameKey \o <<" ", "=", " ">> \o TomlString(rec.name) \o <<"\n">>
    \o emailKey \o <<" ", "=", " ">> \o TomlString(rec.email) \o <<"\n">>

\* the match of save (lines 121-124): the text, or the codec's failure
Encode(rec, format) ==
    IF ~rec.encodable
    THEN [ok |-> FALSE, text |-> <<>>,
          failure |-> IF format = "Json" THEN "serde_json" ELSE "toml_ser"]
    ELSE [ok |-> TRUE, failure |-> "",
          text |-> IF format = "Json" THEN JsonPretty(rec) ELSE TomlPretty(rec)]

\* ------------------------------------------------------- the decoders

\* the character at position i, "" past the end
At(s, i) == IF i >= 1 /\ i <= Len(s) THEN s[i] ELSE ""

\* the first position from i on whose character is not in ws
SkipWs(s, i, ws) ==
    LET skip[j \in Nat] == IF At(s, j) \in ws THEN skip[j + 1] ELSE j
    IN skip[i]

NoParse == [ok |-> FALSE, val |-> <<>>, next |-> 0]

\* a string with backslash escapes that starts at position i with the quote
\* q: [ok, val, next]; raw characters of ctl may not occur in it
ParseEscaped(s, i, q, ctl) ==
    LET str[j \in Nat, acc \in Text] ==
            IF At(s, j) = "" \/ At(s, j) \in ctl THEN NoParse
            ELSE IF At(s, j) = q THEN [ok |-> TRUE, val |-> acc, next |-> j + 1]
            ELSE IF At(s, j) = "\\"
                 THEN IF At(s, j + 1) \in {"\"", "\\"}
                      THEN str[j + 2, Append(acc, At(s, j + 1))]
                      ELSE IF At(s, j + 1) = "n" THEN str[j + 2, Append(acc, "\n")]
                      ELSE IF At(s, j + 1) = "t" THEN str[j + 2, Append(acc, "\t")]
                      ELSE NoParse
            ELSE str[j + 1, Append(acc, At(s, j))]
    IN IF At(s, i) = q THEN str[i + 1, <<>>] ELSE NoParse

\* a string without escapes between two q
ParseLiteral(s, i, q) ==
    LET lit[j \in Nat, acc \in Text] ==
            IF At(s, j) = "" \/ At(s, j) = "\n" THEN NoParse
            ELSE IF At(s, j) = q THEN [ok |-> TRUE, val |-> acc, next |-> j + 1]
            ELSE lit[j + 1, Append(acc, At(s, j))]
    IN IF At(s, i) = q THEN lit[i + 1, <<>>] ELSE NoParse

NoRecord == [ok |-> FALSE, rec |-> <<>>]

\* the fields read so far (Options) turned into a User: both must be there
BuildUser(n, e) ==
    IF n = None \/ e = None THEN NoRecord
    ELSE [ok |-> TRUE, rec |-> Some(User(n[1], e[1]))]

JsonWs == {" ", "\n", "\t", "\r"}
JsonCtl == {"\n", "\t", "\r"}

\* serde_json::from_str::<User> (line 164): one object whose members are
\* strings, in any order, any white space between the tokens; a member
\* named twice, a missing member, or text after the object is an error
JsonDecode(s) ==
    LET member[i \in Nat, n \in Seq(Text), e \in Seq(Text)] ==
            Let(ParseEscaped(s, i, "\"", JsonCtl), LAMBDA k :
            Let(SkipWs(s, k.next, JsonWs), LAMBDA colon :
            Let(ParseEscaped(s, SkipWs(s, colon + 1, JsonWs), "\"", JsonCtl), LAMBDA v :
            Let(SkipWs(s, v.next, JsonWs), LAMBDA after :
                IF ~k.ok \/ At(s, colon) # ":" \/ ~v.ok THEN NoRecord
                ELSE IF k.val = nameKey /\ n # None THEN NoRecord
                ELSE IF k.val = emailKey /\ e # None THEN NoRecord
                ELSE IF At(s, after) = ","
                     THEN member[SkipWs(s, after + 1, JsonWs),
                                 IF k.val = nameKey THEN Some(v.val) ELSE n,
                                 IF k.val = emailKey THEN Some(v.val) ELSE e]
                ELSE IF At(s, after) = "}" /\ SkipWs(s, after + 1, JsonWs) > Len(s)
                     THEN BuildUser(IF k.val = nameKey THEN Some(v.val) ELSE n,
                                    IF k.val = emailKey THEN Some(v.val) ELSE e)
                ELSE NoRecord))))
    IN Let(SkipWs(s, 1, JsonWs), LAMBDA brace :
       Let(SkipWs(s, brace + 1, JsonWs), LAMBDA first :
           IF At(s, brace) # "{" THEN NoRecord
           ELSE IF At(s, first) = "}"
                THEN (IF SkipWs(s, first + 1, JsonWs) > Len(s) THEN BuildUser(None, None)
                      ELSE NoRecord)
           ELSE member[first, None, None]))

TomlWs == {" ", "\t"}

\* characters of a bare key
BareKeyChars ==
    {"a", "b", "c", "d", "e", "f", "g", "h", "i", "j", "k", "l", "m", "n", "o",
     "p", "q", "r", "s", "t", "u", "v", "w", "x", "y", "z", "_", "-",
     "0", "1", "2", "3", "4", "5", "6", "7", "8", "9"}

\* toml::from_str::<User> (line 165): lines "key = string" with a bare key
\* and a basic or literal string, blank lines and comments; a key given
\* twice, a missing key, or anything else on a line is an error
TomlDecode(s) ==
    LET keyEnd[j \in Nat] == IF At(s, j) \in BareKeyChars THEN keyEnd[j + 1] ELSE j
        lineEnd[j \in Nat] == IF At(s, j) \in {"", "\n"} THEN j ELSE lineEnd[j + 1]
        line[i \in Nat, n \in Seq(Text), e \in Seq(Text)] ==
            Let(SkipWs(s, i, TomlWs), LAMBDA start :
            Let(keyEnd[start], LAMBDA kend :
            Let(SubSeq(s, start, kend - 1), LAMBDA key :
            Let(SkipWs(s, kend, TomlWs), LAMBDA eq :
            Let(SkipWs(s, eq + 1, TomlWs), LAMBDA vstart :
            Let(IF At(s, vstart) = "'" THEN ParseLiteral(s, vstart, "'")
                ELSE ParseEscaped(s, vstart, "\"", {"\n", "\r"}), LAMBDA v :
            Let(SkipWs(s, v.next, TomlWs), LAMBDA rest :
            Let(IF At(s, rest) = "#" THEN lineEnd[rest] ELSE rest, LAMBDA stop :
                IF At(s, start) = "" THEN BuildUser(n, e)
                ELSE IF At(s, start) = "\n" THEN line[start + 1, n, e]
                ELSE IF At(s, start) = "#" THEN line[lineEnd[start], n, e]
                ELSE IF kend = start \/ At(s, eq) # "=" \/ ~v.ok THEN NoRecord
                ELSE IF key = nameKey /\ n # None THEN NoRecord
                ELSE IF key = emailKey /\ e # None THEN NoRecord
                ELSE IF At(s, stop) \in {"", "\n"}
                     THEN line[stop, IF key = nameKey THEN Some(v.val) ELSE n,
                                     IF key = emailKey THEN Some(v.val) ELSE e]
                ELSE NoRecord))))))))
    IN line[1, None, None]

\* the match of load (lines 163-166): the record, or the codec's failure
Decode(content, format) ==
    Let(content, LAMBDA text :
    Let(IF format = "Json" THEN JsonDecode(text) ELSE TomlDecode(text), LAMBDA d :
        IF d.ok THEN [ok |-> TRUE, rec |-> d.rec, failure |-> ""]
        ELSE [ok |-> FALSE, rec |-> None,
              failure |-> IF format = "Json" THEN "serde_json" ELSE "toml_de"]))

\* ------------------------------------------------------ the file system

NoFile == [exists |-> FALSE, content |-> <<>>]
FileOf(text) == [exists |-> TRUE, content |-> text]

\* open without truncate(true): an existing file keeps its content
open_keep(f, dOk, new_create) ==
    IF f.exists THEN [ok |-> TRUE, file |-> f]
    ELSE IF new_create /\ dOk THEN [ok |-> TRUE, file |-> FileOf(<<>>)]
    ELSE [ok |-> FALSE, file |-> f]

\* open with create(true) whatever new_create says
open_create(f, dOk, new_create) ==
    IF f.exists THEN [ok |-> TRUE, file |-> FileOf(<<>>)]
    ELSE IF dOk THEN [ok |-> TRUE, file |-> FileOf(<<>>)]
    ELSE [ok |-> FALSE, file |-> f]

\* OpenOptions::new().write(true).truncate(true).create(new_create).open(path)
\* (lines 126-130): an existing file is truncated, a missing one is created
\* only with new_create and a parent directory to create it in
open(f, dOk, new_create) ==
    IF f.exists THEN [ok |-> TRUE, file |-> FileOf(<<>>)]
    ELSE IF new_create /\ dOk THEN [ok |-> TRUE, file |-> FileOf(<<>>)]
    ELSE [ok |-> FALSE, file |-> f]

\* write_all through a descriptor opened with append(true): the bytes go
\* after what the file holds
write_all_append(f, text) == FileOf(f.content \o text)

\* f.write_all(s.as_bytes()) (line 133) through a descriptor whose offset is
\* 0, as it is after open: the bytes replace the first Len(text) bytes of
\* the file, and what the file holds beyond them stays
write_all(f, text) ==
    FileOf(text \o SubSeq(f.content, Len(text) + 1, Len(f.content)))

\* std::fs::read_to_string(path) (line 161): fails when the file is missing
\* and when its bytes are not UTF-8
read_to_string(f) ==
    IF ~f.exists THEN [ok |-> FALSE, text |-> <<>>]
    ELSE IF to_str(f.content) = None THEN [ok |-> FALSE, text |-> <<>>]
    ELSE [ok |-> TRUE, text |-> f.content]

\* --------------------------------------------- trait Storeable (110-183)

\* save that opens the file before it encodes the record
save_open_first(rec, f, dOk, new_create, format) ==
    Let(open(f, dOk, new_create), LAMBDA o :
        IF ~o.ok
        THEN [tag |-> From("io"), file |-> o.file, steps |-> <<"open">>]
        ELSE Let(Encode(rec, format), LAMBDA s :
                 IF ~s.ok
                 THEN [tag |-> From(s.failure), file |-> o.file,
                       steps |-> <<"open", "encode">>]
                 ELSE [tag |-> "Ok", file |-> write_all(o.file, s.text),
                       steps |-> <<"open", "encode", "write_all">>]))

\* fn save (lines 120-135): [tag, file, steps]
save(rec, f, dOk, new_create, format) ==
    Let(Encode(rec, format), LAMBDA s :
        IF ~s.ok
        THEN [tag |-> From(s.failure), file |-> f, steps |-> <<"encode">>]
        ELSE Let(open(f, dOk, new_create), LAMBDA o :
                 IF ~o.ok
                 THEN [tag |-> From("io"), file |-> o.file,
                       steps |-> <<"encode", "open">>]
                 ELSE [tag |-> "Ok", file |-> write_all(o.file, s.text),
                       steps |-> <<"encode", "open", "write_all">>]))

\* save_by_extension that falls back to TOML when the inference fails
save_by_extension_default(rec, p, f, dOk, new_create) ==
    Let(path_to_format(p), LAMBDA format :
    Let(IF format.tag = "Ok" THEN format.fmt ELSE "Toml", LAMBDA fmt :
    Let(save(rec, f, dOk, new_create, fmt), LAMBDA r :
        [tag |-> r.tag, fmt |-> fmt, file |-> r.file,
         steps |-> <<"path_to_format">> \o r.steps])))

\* fn save_by_extension (lines 147-150): [tag, fmt, file, steps]
save_by_extension(rec, p, f, dOk, new_create) ==
    Let(path_to_format(p), LAMBDA format :
        IF format.tag # "Ok"
        THEN [tag |-> format.tag, fmt |-> "", file |-> f,
              steps |-> <<"path_to_format">>]
        ELSE Let(save(rec, f, dOk, new_create, format.fmt), LAMBDA r :
                 [tag |-> r.tag, fmt |-> format.fmt, file |-> r.file,
                  steps |-> <<"path_to_format">> \o r.steps]))

\* load with the two arms of its match exchanged
load_swapped(f, format) ==
    Let(read_to_string(f), LAMBDA content :
        IF ~content.ok
        THEN [tag |-> From("io"), value |-> None, steps |-> <<"read_to_string">>]
        ELSE Let(Decode(content.text, IF format = "Json" THEN "Toml" ELSE "Json"),
                 LAMBDA d :
                 IF ~d.ok
                 THEN [tag |-> From(d.failure), value |-> None,
                       steps |-> <<"read_to_string", "decode">>]
                 ELSE [tag |-> "Ok", value |-> d.rec,
                       steps |-> <<"read_to_string", "decode">>]))

\* fn load (lines 160-167): [tag, value, steps]
load(f, format) ==
    Let(read_to_string(f), LAMBDA content :
        IF ~content.ok
        THEN [tag |-> From("io"), value |-> None, steps |-> <<"read_to_string">>]
        ELSE Let(Decode(content.text, format), LAMBDA d :
                 IF ~d.ok
                 THEN [tag |-> From(d.failure), value |-> None,
                       steps |-> <<"read_to_string", "decode">>]
                 ELSE [tag |-> "Ok", value |-> d.rec,
                       steps |-> <<"read_to_string", "decode">>]))

\* fn load_by_extension (lines 179-182): [tag, fmt, value, steps]
load_by_extension(p, f) ==
    Let(path_to_format(p), LAMBDA format :
        IF format.tag # "Ok"
        THEN [tag |-> format.tag, fmt |-> "", value |-> None,
              steps |-> <<"path_to_format">>]
        ELSE Let(load(f, format.fmt), LAMBDA r :
                 [tag |-> r.tag, fmt |-> format.fmt, value |-> r.value,
                  steps |-> <<"path_to_format">> \o r.steps]))

\* ------------------------------------------------- the sequential caller

\* the paths the file operations are called with
FsPaths ==
    { <<"a", ".", "j", "s", "o", "n">>, <<"a", ".", "t", "o", "m", "l">>,
      <<"a", ".", "y", "a", "m", "l">>, <<"a">>, <<".", "t", "o", "m", "l">> }

\* file contents that no save of the model writes: empty, cut short, not
\* UTF-8, a member missing, a key given twice, and two documents that are
\* valid but not laid out the way the pretty printers lay them out
Foreign ==
    { <<>>,
      <<"{">>,
      <<InvalidByte>>,
      <<"{", "}">>,
      nameKey \o <<"=", "'", "a", "'", "\n">> \o nameKey \o <<"=", "'", "a", "'", "\n">>,
      <<"{">> \o JsonString(emailKey) \o <<":">> \o JsonString(<<"a">>) \o <<",">>
          \o JsonString(nameKey) \o <<":">> \o JsonString(<<"\\">>) \o <<"}", "\n">>,
      <<"#", "c", "\n">> \o emailKey \o <<"=", "'", "a", "'", " ", "#", "c", "\n", "\n">>
          \o nameKey \o <<" ", "=", "\t">> \o <<"\"", "\\", "\"", "\"">> }

Threads == {1, 2}

NoPrev == [op |-> "none", rec |-> None, create |-> FALSE, tag |-> ""]

\* what a load_by_extension keeps of the call l made just before it: the
\* save_by_extension whose file it reads back, when that is what l was
Prev(l) ==
    IF l.op = "save_by_extension" /\ l.tag = "Ok"
    THEN [op |-> l.op, rec |-> l.rec, create |-> l.create, tag |-> l.tag]
    ELSE NoPrev

NoCall ==
    [op |-> "none", rec |-> None, create |-> FALSE, fmt |-> "", tag |-> "",
     value |-> None, steps |-> <<>>, before |-> [exists |-> FALSE, longer |-> FALSE],
     after |-> NoPrev]

\* what a call's record keeps of the file f it found: whether it existed,
\* and whether it held more than the file g the call left
Seen(f, g) == [exists |-> f.exists, longer |-> Len(f.content) > Len(g.content)]

NoArgs == [rec |-> Unencodable, create |-> FALSE, fmt |-> ""]

Idle ==
    /\ pc = [t \in Threads |-> "idle"]
    /\ call = [t \in Threads |-> NoArgs]
    /\ buf = [t \in Threads |-> <<>>]
    /\ got = [t \in Threads |-> ""]
    /\ log = <<>>

Init ==
    /\ path \in FsPaths
    /\ dirOk \in BOOLEAN
    /\ file = NoFile
    /\ last = NoCall
    /\ Idle

\* user.save(path, new_create, format)
Save ==
    \E rec \in Records, new_create \in BOOLEAN, format \in Format :
        \E r \in {save(rec, file, dirOk, new_create, format)} :
            /\ file' = r.file
            /\ last' = [op |-> "save", rec |-> Some(rec), create |-> new_create,
                        fmt |-> format, tag |-> r.tag, value |-> None,
                        steps |-> r.steps, before |-> Seen(file, r.file),
                        after |-> NoPrev]
            /\ UNCHANGED <<path, dirOk, threadVars>>

\* user.save_by_extension(path, new_create)
SaveByExtension ==
    \E rec \in Records, new_create \in BOOLEAN :
        \E r \in {save_by_extension(rec, path, file, dirOk, new_create)} :
            /\ file' = r.file
            /\ last' = [op |-> "save_by_extension", rec |-> Some(rec),
                        create |-> new_create, fmt |-> r.fmt, tag |-> r.tag,
                        value |-> None, steps |-> r.steps,
                        before |-> Seen(file, r.file), after |-> NoPrev]
            /\ UNCHANGED <<path, dirOk, threadVars>>

\* User::load(path, format)
Load ==
    \E format \in Format :
        \E r \in {load(file, format)} :
            /\ last' = [op |-> "load", rec |-> None, create |-> FALSE,
                        fmt |-> format, tag |-> r.tag, value |-> r.value,
                        steps |-> r.steps, before |-> Seen(file, file),
                        after |-> NoPrev]
            /\ UNCHANGED <<path, dirOk, file, threadVars>>

\* User::load_by_extension(path)
LoadByExtension ==
    \E r \in {load_by_extension(path, file)} :
        /\ last' = [op |-> "load_by_extension", rec |-> None, create |-> FALSE,
                    fmt |-> r.fmt, tag |-> r.tag, value |-> r.value,
                    steps |-> r.steps, before |-> Seen(file, file),
                    after |-> Prev(last)]
        /\ UNCHANGED <<path, dirOk, file, threadVars>>

\* another program puts a file of its own at the path
EnvWrite ==
    /\ dirOk
    /\ \E c \in Foreign : file' = FileOf(c)
    /\ last' = NoCall
    /\ UNCHANGED <<path, dirOk, threadVars>>

\* another program removes the file
EnvRemove ==
    /\ file.exists
    /\ file' = NoFile
    /\ last' = NoCall
    /\ UNCHANGED <<path, dirOk, threadVars>>

Next == Save \/ SaveByExtension \/ Load \/ LoadByExtension \/ EnvWrite \/ EnvRemove

Spec == Init /\ [][Next]_vars

\* ------------------------------------------- path_to_format on its own

InitFmt ==
    /\ path \in AllPaths
    /\ dirOk = TRUE
    /\ file = NoFile
    /\ last = NoCall
    /\ Idle

\* path_to_format(&path)
PathToFormat ==
    \E r \in {path_to_format(path)} :
        /\ last' = [op |-> "path_to_format", rec |-> None, create |-> FALSE,
                    fmt |-> r.fmt, tag |-> r.tag, value |-> None,
                    steps |-> <<"path_to_format">>, before |-> Seen(file, file),
                    after |-> NoPrev]
        /\ UNCHANGED <<path, dirOk, file, threadVars>>

NextFmt == PathToFormat

SpecFmt == InitFmt /\ [][NextFmt]_vars

\* ------------------------------------------------ the steps of one thread

\* thread t ends its save with the result tag
Return(t, tag) ==
    /\ pc' = [pc EXCEPT ![t] = "done"]
    /\ got' = [got EXCEPT ![t] = tag]

\* lines 121-124 of save in thread t
DoEncode(t, next) ==
    /\ pc[t] = "encode"
    /\ \E s \in {Encode(call[t].rec, call[t].fmt)} :
           IF s.ok
           THEN /\ buf' = [buf EXCEPT ![t] = s.text]
                /\ pc' = [pc EXCEPT ![t] = next]
                /\ got' = got
           ELSE /\ Return(t, From(s.failure))
                /\ buf' = buf
    /\ UNCHANGED <<path, dirOk, file, last, call, log>>

\* lines 126-130 of save in thread t: the descriptor it gets is at offset 0
DoOpen(t, next) ==
    /\ pc[t] = "open"
    /\ \E o \in {open(file, dirOk, call[t].create)} :
           IF o.ok
           THEN /\ file' = o.file
                /\ log' = Append(log, [thread |-> t, step |-> "open"])
                /\ pc' = [pc EXCEPT ![t] = next]
                /\ got' = got
           ELSE /\ Return(t, From("io"))
                /\ UNCHANGED <<file, log>>
    /\ UNCHANGED <<path, dirOk, last, call, buf>>

\* lines 133-134 of save in thread t: write_all lands as one write
DoWrite(t, next) ==
    /\ pc[t] = "write_all"
    /\ file' = write_all(file, buf[t])
    /\ log' = Append(log, [thread |-> t, step |-> "write_all"])
    /\ pc' = [pc EXCEPT ![t] = next]
    /\ got' = [got EXCEPT ![t] = "Ok"]
    /\ UNCHANGED <<path, dirOk, last, call, buf>>

\* ----------------------------------- two callers saving to the same path

\* a file that some earlier program left, longer than any encoding
Leftover == [i \in 1..60 |-> "#"]

InitRace ==
    /\ path = <<"a", ".", "t", "o", "m", "l">>
    /\ dirOk = TRUE
    /\ file \in {NoFile, FileOf(Leftover)}
    /\ last = NoCall
    /\ pc = [t \in Threads |-> "encode"]
    /\ call \in {c \in [Threads -> [rec : Records, create : BOOLEAN, fmt : Format]] :
                   c[1].rec # c[2].rec}
    /\ buf = [t \in Threads |-> <<>>]
    /\ got = [t \in Threads |-> ""]
    /\ log = <<>>

RaceEncode == \E t \in Threads : DoEncode(t, "open")
RaceOpen == \E t \in Threads : DoOpen(t, "write_all")
RaceWrite == \E t \in Threads : DoWrite(t, "done")

NextRace == RaceEncode \/ RaceOpen \/ RaceWrite

SpecRace == InitRace /\ [][NextRace]_vars

\* ------------------------------ the two tests of the crate (lines 207-238)

save_test == 1
load_test == 2

\* test_f_path.join("user.toml") under the directory test (lines 200, 210, 225)
save_path ==
    <<"t", "e", "s", "t", "/", "u", "s", "e", "r", ".", "t", "o", "m", "l">>

\* the user of both tests (lines 211-214, 226-229)
user ==
    User(<<"A", "l", "i", "c", "e">>,
         <<"a", "l", "i", "c", "e", "@", "a", "l", "i", "c", "e", ".", "c", "o", "m">>)

\* the directory test may be missing; the file may be left from an earlier
\* run, whole, or empty when that run was stopped between open and write_all
InitTests ==
    /\ path = save_path
    /\ dirOk \in BOOLEAN
    /\ file \in (IF dirOk THEN {NoFile, FileOf(TomlPretty(user)), FileOf(<<>>)}
                ELSE {NoFile})
    /\ last = NoCall
    /\ pc = [t \in Threads |-> "exists"]
    /\ call = [t \in Threads |-> [rec |-> user, create |-> TRUE, fmt |-> ""]]
    /\ buf = [t \in Threads |-> <<>>]
    /\ got = [t \in Threads |-> ""]
    /\ log = <<>>

\* ready_test_env (lines 199-205): test_path.exists()
TestExists ==
    \E t \in Threads :
        /\ pc[t] = "exists"
        /\ pc' = [pc EXCEPT ![t] = IF dirOk THEN "path_to_format" ELSE "create_dir_all"]
        /\ UNCHANGED <<path, dirOk, file, last, call, buf, got, log>>

\* ready_test_env: create_dir_all, which succeeds when the directory is there
TestCreateDir ==
    \E t \in Threads :
        /\ pc[t] = "create_dir_all"
        /\ dirOk' = TRUE
        /\ pc' = [pc EXCEPT ![t] = "path_to_format"]
        /\ UNCHANGED <<path, file, last, call, buf, got, log>>

\* save_by_extension, line 148
TestInfer ==
    \E t \in Threads :
        /\ pc[t] = "path_to_format"
        /\ \E format \in {path_to_format(path)} :
               IF format.tag = "Ok"
               THEN /\ call' = [call EXCEPT ![t].fmt = format.fmt]
                    /\ pc' = [pc EXCEPT ![t] = "encode"]
                    /\ got' = got
               ELSE /\ Return(t, format.tag)
                    /\ call' = call
        /\ UNCHANGED <<path, dirOk, file, last, buf, log>>

TestEncode == \E t \in Threads : DoEncode(t, "open")
TestOpen == \E t \in Threads : DoOpen(t, "write_all")

\* save_test ends with its assert (line 219); load_test goes on to load
\* after the unwrap (line 231)
TestWrite ==
    \E t \in Threads : DoWrite(t, IF t = load_test THEN "load_by_extension" ELSE "done")

\* User::load_by_extension(save_path) of load_test (line 233): it reads the
\* file once, in read_to_string
TestLoad ==
    /\ pc[load_test] = "load_by_extension"
    /\ \E r \in {load_by_extension(path, file)} :
           last' = [op |-> "load_by_extension", rec |-> None, create |-> FALSE,
                    fmt |-> r.fmt, tag |-> r.tag, value |-> r.value,
                    steps |-> r.steps, before |-> Seen(file, file),
                    after |-> NoPrev]
    /\ pc' = [pc EXCEPT ![load_test] = "done"]
    /\ UNCHANGED <<path, dirOk, file, call, buf, got, log>>

NextTests ==
    \/ TestExists \/ TestCreateDir \/ TestInfer \/ TestEncode \/ TestOpen
    \/ TestWrite \/ TestLoad

SpecTests == InitTests /\ [][NextTests]_vars

\* ================================================== the sequential claims

Final(s) == IF s = <<>> THEN "" ELSE s[Len(s)]

SaveOps == {"save", "save_by_extension"}
LoadOps == {"load", "load_by_extension"}

\* C1: a load_by_extension(P) made right after a save_by_extension(R, P,
\* true) that returned Ok succeeds and returns a record equal to R
C1_RoundTrip ==
    (/\ last.op = "load_by_extension" /\ last.after.op = "save_by_extension"
     /\ last.after.tag = "Ok" /\ last.after.create)
    => (last.tag = "Ok" /\ last.value = last.after.rec)

\* such a load returned a record whose name is a backslash from a TOML file
C1_Witness ==
    /\ last.op = "load_by_extension" /\ last.after.op = "save_by_extension"
    /\ last.after.tag = "Ok" /\ last.after.create
    /\ last.fmt = "Toml" /\ last.value = Some(User(<<"\\">>, <<>>))

\* C2: after a save that returned Ok the file holds exactly the pretty
\* encoding of the record in the format, whatever it held before and for
\* both values of new_create
C2_ExactContent ==
    (last.op \in SaveOps /\ last.tag = "Ok")
    => file = FileOf(Encode(last.rec[1], last.fmt).text)

\* a save without new_create replaced a longer content
C2_Witness ==
    /\ last.op = "save" /\ last.tag = "Ok" /\ ~last.create
    /\ last.before.exists /\ last.before.longer

\* C5: when the inference fails, save_by_extension and load_by_extension
\* return ExtensionDoesNotExist after path_to_format alone, and the file is
\* as it was
C5_InferenceFailureFrame ==
    [][(last'.op \in {"save_by_extension", "load_by_extension"}
        /\ path_to_format(path).tag # "Ok")
       => (/\ last'.tag = "ExtensionDoesNotExist"
           /\ last'.steps = <<"path_to_format">>
           /\ last'.value = None
           /\ file' = file)]_vars

\* save_by_extension with new_create failed on a path without a supported
\* extension where a file with content exists
C5_Witness ==
    /\ last.op = "save_by_extension" /\ last.tag = "ExtensionDoesNotExist"
    /\ last.create /\ last.rec # Some(Unencodable)
    /\ file.exists /\ file.content # <<>>

\* C6: save of an encodable record where no file exists: without new_create
\* it fails with IoE and there is still no file; with new_create and a
\* parent directory it succeeds and the file exists
C6_CreateGating ==
    (last.op = "save" /\ ~last.before.exists /\ last.rec[1].encodable)
    => /\ ~last.create => (last.tag = "IoE" /\ file = NoFile)
       /\ (last.create /\ dirOk) => (last.tag = "Ok" /\ file.exists)

\* a save without new_create failed in a directory that is there
C6_Witness ==
    /\ last.op = "save" /\ ~last.before.exists /\ ~last.create /\ dirOk
    /\ last.rec[1].encodable /\ last.tag = "IoE"

\* C9: a save whose record fails to encode returns the Encode error of the
\* format after the encode step alone, and the file is as it was
C9_EncodeFailureFrame ==
    [][(last'.op \in SaveOps /\ last'.rec = Some(Unencodable) /\ last'.fmt # "")
       => (/\ last'.tag = (IF last'.fmt = "Json" THEN "JsonE" ELSE "ParTomlE")
           /\ Final(last'.steps) = "encode"
           /\ file' = file)]_vars

\* such a save with new_create found a file with content, and it is still
\* there
C9_Witness ==
    /\ last.op = "save" /\ last.rec = Some(Unencodable) /\ last.create
    /\ last.tag = "ParTomlE" /\ file.exists /\ file.content # <<>>

\* the error a failed decode of the format is converted to
DecodeError(format) == From(Decode(<<>>, format).failure)

\* C7 as claimed: a load whose decode fails returns the Decode variant of
\* the format and no record, and that variant comes from decode failures only
C7_Original ==
    /\ (last.op \in LoadOps /\ Final(last.steps) = "decode" /\ last.tag # "Ok")
       => (last.tag = DecodeError(last.fmt) /\ last.value = None)
    /\ (\E format \in Format : last.tag = DecodeError(format))
       => Final(last.steps) = "decode"

\* C7 amended: a load whose decode fails returns JsonE for Json and DesTomlE
\* for Toml, and no record; DesTomlE comes from TOML decode failures only;
\* JsonE comes from JSON decode and JSON encode failures; neither is IoE,
\* which comes from read_to_string and open
C7_DecodeFailure ==
    /\ (last.op \in LoadOps /\ Final(last.steps) = "decode")
       => \/ last.tag = "Ok" /\ last.value # None
          \/ /\ last.tag = (IF last.fmt = "Json" THEN "JsonE" ELSE "DesTomlE")
             /\ last.value = None
    /\ last.tag = "DesTomlE"
       => (last.op \in LoadOps /\ last.fmt = "Toml" /\ Final(last.steps) = "decode")
    /\ last.tag = "JsonE"
       => (last.fmt = "Json" /\ Final(last.steps) \in {"decode", "encode"})
    /\ last.tag = "IoE" => Final(last.steps) \in {"read_to_string", "open"}

\* a load of a file that is no JSON document returned JsonE
C7_Witness ==
    /\ last.op = "load" /\ last.fmt = "Json" /\ last.tag = "JsonE"
    /\ file.exists /\ last.value = None

\* ============================================ the claims on path_to_format

\* the final segment of a path: its last component, separators at the end
\* and "." components aside
FinalSegment(p) ==
    Let(SelectSeq(Split(p, "/"), LAMBDA c : c # <<>> /\ c # <<".">>), LAMBDA comps :
        IF comps = <<>> THEN <<>> ELSE comps[Len(comps)])

\* the substring after the last "." of the final segment, None without a "."
AfterLastDot(p) ==
    Let(FinalSegment(p), LAMBDA seg :
        IF LastIndexOf(seg, ".") = 0 THEN None
        ELSE Some(SubSeq(seg, LastIndexOf(seg, ".") + 1, Len(seg))))

\* C3 as claimed: when the final segment has a "." and what follows its last
\* "." is json (toml), the format is Json (Toml)
C3_Original ==
    last.op = "path_to_format"
    => /\ AfterLastDot(path) = Some(json) => (last.tag = "Ok" /\ last.fmt = "Json")
       /\ AfterLastDot(path) = Some(toml) => (last.tag = "Ok" /\ last.fmt = "Toml")

\* C3 amended: the same, when the last "." is not the first character of
\* the final segment; when it is (".toml"), the path has no extension and
\* the result is ExtensionDoesNotExist
C3_LastDotExtension ==
    last.op = "path_to_format"
    => /\ (AfterLastDot(path) = Some(json) /\ LastIndexOf(FinalSegment(path), ".") > 1)
          => (last.tag = "Ok" /\ last.fmt = "Json")
       /\ (AfterLastDot(path) = Some(toml) /\ LastIndexOf(FinalSegment(path), ".") > 1)
          => (last.tag = "Ok" /\ last.fmt = "Toml")
       /\ LastIndexOf(FinalSegment(path), ".") = 1
          => last.tag = "ExtensionDoesNotExist"

\* path_to_format gave Toml for a file name with two extensions in a
\* directory whose own name ends in .json
C3_Witness ==
    /\ last.op = "path_to_format" /\ last.tag = "Ok" /\ last.fmt = "Toml"
    /\ path = <<"d", ".", "j", "s", "o", "n", "/", "a", ".", "a", ".", "t", "o", "m", "l">>

\* C4: path_to_format returns ExtensionDoesNotExist, and no format, when the
\* final segment has no "." and when what follows its last "." is anything
\* but json and toml; it returns no other error
C4_UnknownExtension ==
    last.op = "path_to_format"
    => /\ last.tag \in {"Ok", "ExtensionDoesNotExist"}
       /\ (AfterLastDot(path) = None \/ AfterLastDot(path)[1] \notin {json, toml})
          => (last.tag = "ExtensionDoesNotExist" /\ last.fmt = "")

\* path_to_format refused a path whose extension is JSON in capitals
C4_Witness ==
    /\ last.op = "path_to_format" /\ last.tag = "ExtensionDoesNotExist"
    /\ AfterLastDot(path) = Some(<<"J", "S", "O", "N">>)

\* ============================================== the claims on concurrency

BothOk == \A t \in Threads : pc[t] = "done" /\ got[t] = "Ok"

\* the position in the log of thread t's step
LogIndex(t, step) == CHOOSE i \in 1..Len(log) : log[i] = [thread |-> t, step |-> step]

\* the thread whose write_all landed last, and the other one
LastWriter == log[Len(log)].thread
FirstWriter == CHOOSE t \in Threads : t # LastWriter

\* C8 as claimed: when both saves returned Ok, the file holds the complete
\* encoding written by the save whose write landed last
C8_Original == BothOk => file = FileOf(buf[LastWriter])

\* C8 amended: when both saves returned Ok, the file begins with the
\* complete encoding of the save whose write landed last; it is that
\* encoding alone when the other write landed before the last writer's
\* open, and otherwise the bytes of the other encoding beyond its length
\* follow it
C8_LastWriterPrefix ==
    BothOk =>
        file = FileOf(
            IF LogIndex(FirstWriter, "write_all") < LogIndex(LastWriter, "open")
            THEN buf[LastWriter]
            ELSE buf[LastWriter]
                 \o SubSeq(buf[FirstWriter], Len(buf[LastWriter]) + 1, Len(buf[FirstWriter])))

\* both saves returned Ok and the file holds neither encoding
C8_Witness == BothOk /\ file.content # buf[1] /\ file.content # buf[2]

\* C10: the load of load_test returns Ok with a record equal to the saved one
C10_Original ==
    last.op = "load_by_extension" => (last.tag = "Ok" /\ last.value = Some(user))

====
